---- MODULE Spec2Model ----
(***************************************************************************)
(* A model of plain-msgbox (src/src/lib.rs): the box renderer              *)
(* generate_with_config, its two convenience entry points and the          *)
(* TextBoxConfig value object.                                             *)
(*                                                                         *)
(* A Rust `char` is modelled by its Unicode scalar value (a natural        *)
(* number) and a `String`/`&str` by the sequence of its chars.  Rust       *)
(* strings are UTF-8, so `str::len` is the number of BYTES of the          *)
(* encoding (str_len below), while Len(s) is the number of characters.     *)
(* An Option<T> is a sequence of length 0 (None) or 1 (Some).              *)
(***************************************************************************)
EXTENDS Integers, Sequences, FiniteSets

VARIABLES statics, call, config, output

vars == <<statics, call, config, output>>

------------------------------------------------------------------------------
(* Bounds of the model: the inputs the entry points are called with.        *)

MaxLen == 1

MaxLines == 2

\* The characters inputs are built from: 'a' (U+0061, 1 byte in UTF-8),
\* 'e-acute' (U+00E9, 2 bytes) and the line feed (U+000A).
InputChars == {97, 233, 10}

Strings == UNION {[1..k -> InputChars] : k \in 0..MaxLen}

LineSeqs == UNION {[1..k -> Strings] : k \in 0..MaxLines}

------------------------------------------------------------------------------
(* Option<T>                                                                *)

None == << >>

Some(x) == <<x>>

unwrap_or(opt, d) == IF opt = None THEN d ELSE opt[1]

------------------------------------------------------------------------------
(* Characters the renderer writes itself.                                   *)

\* ' ' in " ".repeat(..) and in the "{} {}{} {}" format string
SPACE == 32

\* '\n' in result.join("\n")
NEWLINE == 10

\* '<' and '>' in the "<{}>{}{}" format string
LESS_THAN == 60

GREATER_THAN == 62

------------------------------------------------------------------------------
(* The box characters: the `static` items of modules `default` and `dos`.   *)
(* They are immutable memory: the variable `statics` holds them and no      *)
(* action writes it.                                                        *)

InitStatics ==
    [ DEFAULT_HORIZONTAL_BAR      |-> <<9472>>,   \* U+2500
      DEFAULT_VERTICAL_BAR        |-> <<9474>>,   \* U+2502
      DEFAULT_LEFT_TOP_CORNER     |-> <<9581>>,   \* U+256D
      DEFAULT_LEFT_BOTTOM_CORNER  |-> <<9584>>,   \* U+2570
      DEFAULT_RIGHT_TOP_CORNER    |-> <<9582>>,   \* U+256E
      DEFAULT_RIGHT_BOTTOM_CORNER |-> <<9583>>,   \* U+256F
      DOS_HORIZONTAL_BAR          |-> <<9552>>,   \* U+2550
      DOS_VERTICAL_BAR            |-> <<9553>>,   \* U+2551
      DOS_LEFT_TOP_CORNER         |-> <<9556>>,   \* U+2554
      DOS_LEFT_BOTTOM_CORNER      |-> <<9562>>,   \* U+255A
      DOS_RIGHT_TOP_CORNER        |-> <<9559>>,   \* U+2557
      DOS_RIGHT_BOTTOM_CORNER     |-> <<9565>> ]  \* U+255D

------------------------------------------------------------------------------
(* String primitives of the standard library, as the code uses them.        *)

\* char::len_utf8: the number of bytes of a scalar value's UTF-8 encoding
len_utf8(c) ==
    IF c < 128 THEN 1
    ELSE IF c < 2048 THEN 2
    ELSE IF c < 65536 THEN 3
    ELSE 4

RECURSIVE str_len(_)
\* str::len / String::len: the length of the string in bytes
str_len(s) ==
    IF s = << >> THEN 0 ELSE len_utf8(Head(s)) + str_len(Tail(s))

RECURSIVE repeat(_, _)
\* str::repeat(n)
repeat(s, n) ==
    IF n <= 0 THEN << >> ELSE s \o repeat(s, n - 1)

\* Ord::max
max(a, b) == IF a >= b THEN a ELSE b

RECURSIVE iter_max(_)
\* Iterator::max over the byte lengths of the lines: None for no lines
iter_max(lines) ==
    IF lines = << >> THEN None
    ELSE Some(max(str_len(Head(lines)), unwrap_or(iter_max(Tail(lines)), 0)))

RECURSIVE join_terminated(_, _)
\* A join that also ends the last row with the separator.
join_terminated(rows, sep) ==
    IF rows = << >> THEN << >>
    ELSE rows[1] \o sep \o join_terminated(Tail(rows), sep)

RECURSIVE join(_, _)
\* [String]::join(sep)
join(rows, sep) ==
    IF rows = << >> THEN << >>
    ELSE IF Len(rows) = 1 THEN rows[1]
    ELSE rows[1] \o sep \o join(Tail(rows), sep)

\* usize subtraction a - b: it overflows exactly when a < b
sub_overflows(a, b) == a < b

------------------------------------------------------------------------------
(* TextBoxConfig                                                            *)

\* impl Default for TextBoxConfig: the light preset, no caption
Default ==
    [ horizontal_bar      |-> statics.DEFAULT_HORIZONTAL_BAR,
      vertical_bar        |-> statics.DEFAULT_VERTICAL_BAR,
      left_top_corner     |-> statics.DEFAULT_LEFT_TOP_CORNER,
      left_bottom_corner  |-> statics.DEFAULT_LEFT_BOTTOM_CORNER,
      right_top_corner    |-> statics.DEFAULT_RIGHT_TOP_CORNER,
      right_bottom_corner |-> statics.DEFAULT_RIGHT_BOTTOM_CORNER,
      last_line_caption   |-> None ]

\* TextBoxConfig::dos: the double-line preset, no caption
dos ==
    [ horizontal_bar      |-> statics.DOS_HORIZONTAL_BAR,
      vertical_bar        |-> statics.DOS_VERTICAL_BAR,
      left_top_corner     |-> statics.DOS_LEFT_TOP_CORNER,
      left_bottom_corner  |-> statics.DOS_LEFT_BOTTOM_CORNER,
      right_top_corner    |-> statics.DOS_RIGHT_TOP_CORNER,
      right_bottom_corner |-> statics.DOS_RIGHT_BOTTOM_CORNER,
      last_line_caption   |-> None ]

\* A config written as a struct literal (every field of TextBoxConfig is
\* pub): the ASCII frame  + - | , one 1-byte character per glyph.
AsciiConfig ==
    [ horizontal_bar      |-> <<45>>,
      vertical_bar        |-> <<124>>,
      left_top_corner     |-> <<43>>,
      left_bottom_corner  |-> <<43>>,
      right_top_corner    |-> <<43>>,
      right_bottom_corner |-> <<43>>,
      last_line_caption   |-> None ]

\* A builder that starts again from the light preset instead of `..self`.
with_caption_from_default(self, caption) ==
    [Default EXCEPT !.last_line_caption = Some(caption)]

\* TextBoxConfig::with_caption:  Self { last_line_caption: Some(caption), ..self }
with_caption(self, caption) ==
    [self EXCEPT !.last_line_caption = Some(caption)]

------------------------------------------------------------------------------
(* The renderer                                                             *)

\* The width computed from the lines alone, the caption forgotten.
longest_line_of_lines(lines, cfg) ==
    unwrap_or(iter_max(lines), 0)

\* generate_with_config, the two `let longest_line` bindings: the longest
\* line in bytes, then the maximum of it and the caption's byte length.
longest_line(lines, cfg) ==
    LET longest   == unwrap_or(iter_max(lines), 0)
        captionsz == IF cfg.last_line_caption = None
                     THEN 0
                     ELSE str_len(cfg.last_line_caption[1])
    IN  max(captionsz, longest)

\* The first element of `result`: the top border.
top_border(cfg, width) ==
    cfg.left_top_corner \o repeat(cfg.horizontal_bar, width + 2)
                        \o cfg.right_top_corner

\* The body of `for line in lines`: format!("{} {}{} {}", ..).
content_row(cfg, width, line) ==
    cfg.vertical_bar \o <<SPACE>> \o line
        \o repeat(<<SPACE>>, width - str_len(line))
        \o <<SPACE>> \o cfg.vertical_bar

\* The last element of `result`: the `if let Some(caption)` and its else.
bottom_border(cfg, width) ==
    IF cfg.last_line_caption # None
    THEN LET caption == cfg.last_line_caption[1]
         IN  <<LESS_THAN>> \o caption \o <<GREATER_THAN>>
                 \o repeat(cfg.horizontal_bar, width - str_len(caption) + 1)
                 \o cfg.right_bottom_corner
    ELSE cfg.left_bottom_corner \o repeat(cfg.horizontal_bar, width + 2)
                                \o cfg.right_bottom_corner

\* generate_with_config.  The value is [panicked, text]: `panicked` when one
\* of the two usize subtractions overflows (a panic in a debug build; in a
\* release build the wrapped count makes str::repeat panic on capacity
\* overflow), `text` the returned String otherwise.
generate_with_config(lines, cfg) ==
    LET width    == longest_line(lines, cfg)
        overflow ==
            \/ \E i \in 1..Len(lines) : sub_overflows(width, str_len(lines[i]))
            \/ /\ cfg.last_line_caption # None
               /\ sub_overflows(width, str_len(cfg.last_line_caption[1]))
        result   ==
            <<top_border(cfg, width)>>
                \o [i \in 1..Len(lines) |-> content_row(cfg, width, lines[i])]
                \o <<bottom_border(cfg, width)>>
    IN  IF overflow
        THEN [panicked |-> TRUE, text |-> << >>]
        ELSE [panicked |-> FALSE, text |-> join(result, <<NEWLINE>>)]

\* generate_box
generate_box(lines) == generate_with_config(lines, Default)

\* A generate_with_caption that fills the rest of the struct from dos().
generate_with_caption_dos(lines, last_line_caption) ==
    generate_with_config(
        lines, [dos EXCEPT !.last_line_caption = Some(last_line_caption)])

\* generate_with_caption:
\*   TextBoxConfig { last_line_caption: Some(..), ..Default::default() }
generate_with_caption(lines, last_line_caption) ==
    generate_with_config(
        lines, [Default EXCEPT !.last_line_caption = Some(last_line_caption)])

------------------------------------------------------------------------------
(* The state machine: a caller of the crate, a straight-line program that   *)
(* makes a TextBoxConfig (or none), derives captioned configs from it and   *)
(* renders one box.  `call` is the last call made (function and             *)
(* arguments), `config` the TextBoxConfig the caller holds (None before one *)
(* is made and after it is moved into generate_with_config), `output` the   *)
(* String the generate_* call returned.                                     *)

NoCall == [fn |-> "none", lines |-> << >>, config |-> None, caption |-> None]

Init ==
    /\ statics = InitStatics
    /\ call = NoCall
    /\ config = None
    /\ output = None

\* let config = TextBoxConfig::default();
CallDefault ==
    /\ call' = [NoCall EXCEPT !.fn = "default"]
    /\ config' = Some(Default)
    /\ output' = None
    /\ UNCHANGED statics

\* let config = TextBoxConfig::dos();
CallDos ==
    /\ call' = [NoCall EXCEPT !.fn = "dos"]
    /\ config' = Some(dos)
    /\ output' = None
    /\ UNCHANGED statics

\* let config = TextBoxConfig { .. };
StructLiteral ==
    /\ call' = [NoCall EXCEPT !.fn = "literal"]
    /\ config' = Some(AsciiConfig)
    /\ output' = None
    /\ UNCHANGED statics

\* let config = config.with_caption(caption);
WithCaption ==
    /\ config # None
    /\ \E caption \in Strings :
          /\ call' = [NoCall EXCEPT !.fn = "with_caption",
                                    !.config = config,
                                    !.caption = Some(caption)]
          /\ config' = Some(with_caption(config[1], caption))
    /\ output' = None
    /\ UNCHANGED statics

\* generate_box(&lines)
GenerateBox ==
    /\ config = None
    /\ output = None
    /\ \E lines \in LineSeqs :
          /\ call' = [NoCall EXCEPT !.fn = "generate_box", !.lines = lines]
          /\ output' = Some(generate_box(lines))
    /\ config' = None
    /\ UNCHANGED statics

\* generate_with_caption(&lines, caption)
GenerateWithCaption ==
    /\ config = None
    /\ output = None
    /\ \E lines \in LineSeqs, caption \in Strings :
          /\ call' = [NoCall EXCEPT !.fn = "generate_with_caption",
                                    !.lines = lines,
                                    !.caption = Some(caption)]
          /\ output' = Some(generate_with_caption(lines, caption))
    /\ config' = None
    /\ UNCHANGED statics

\* generate_with_config(&lines, config): the config is moved into the call
GenerateWithConfig ==
    /\ config # None
    /\ \E lines \in LineSeqs :
          /\ call' = [NoCall EXCEPT !.fn = "generate_with_config",
                                    !.lines = lines,
                                    !.config = config]
          /\ output' = Some(generate_with_config(lines, config[1]))
    /\ config' = None
    /\ UNCHANGED statics

Next ==
    \/ CallDefault
    \/ CallDos
    \/ StructLiteral
    \/ WithCaption
    \/ GenerateBox
    \/ GenerateWithCaption
    \/ GenerateWithConfig

Spec == Init /\ [][Next]_vars

------------------------------------------------------------------------------
(* Vocabulary of the properties.  A length here is a number of CHARACTERS   *)
(* (Len), the unit the specification measures widths in; rows are what the  *)
(* returned String splits into at its newlines.                             *)

Rendered == call.fn = "generate_with_config" /\ output # None

Text == output[1].text

Lines == call.lines

Cfg == call.config[1]

HasCaption == Cfg.last_line_caption # None

Caption == Cfg.last_line_caption[1]

NoNewline(s) == \A i \in 1..Len(s) : s[i] # NEWLINE

LinesNoNewline == \A i \in 1..Len(Lines) : NoNewline(Lines[i])

CaptionNoNewline == HasCaption => NoNewline(Caption)

Count(s, c) == Cardinality({i \in 1..Len(s) : s[i] = c})

RECURSIVE Rows(_)
Rows(s) ==
    IF NoNewline(s) THEN <<s>>
    ELSE LET i == CHOOSE k \in 1..Len(s) :
                     s[k] = NEWLINE /\ \A m \in 1..(k - 1) : s[m] # NEWLINE
         IN  <<SubSeq(s, 1, i - 1)>> \o Rows(SubSeq(s, i + 1, Len(s)))

\* The interior width the renderer used, read off its output: the number of
\* horizontal bars in the top border minus 2.
InteriorWidth == Count(Rows(Text)[1], Cfg.horizontal_bar[1]) - 2

RECURSIVE MaxCharLen(_)
MaxCharLen(ls) ==
    IF ls = << >> THEN 0 ELSE max(Len(Head(ls)), MaxCharLen(Tail(ls)))

CaptionCharLen == IF HasCaption THEN Len(Caption) ELSE 0

\* The glyphs of the two presets, as the specification lists them.
LightPreset ==
    [ horizontal_bar      |-> <<9472>>,
      vertical_bar        |-> <<9474>>,
      left_top_corner     |-> <<9581>>,
      left_bottom_corner  |-> <<9584>>,
      right_top_corner    |-> <<9582>>,
      right_bottom_corner |-> <<9583>>,
      last_line_caption   |-> None ]

DoublePreset ==
    [ horizontal_bar      |-> <<9552>>,
      vertical_bar        |-> <<9553>>,
      left_top_corner     |-> <<9556>>,
      left_bottom_corner  |-> <<9562>>,
      right_top_corner    |-> <<9559>>,
      right_bottom_corner |-> <<9565>>,
      last_line_caption   |-> None ]

SameGlyphs(a, b) ==
    /\ a.horizontal_bar = b.horizontal_bar
    /\ a.vertical_bar = b.vertical_bar
    /\ a.left_top_corner = b.left_top_corner
    /\ a.left_bottom_corner = b.left_bottom_corner
    /\ a.right_top_corner = b.right_top_corner
    /\ a.right_bottom_corner = b.right_bottom_corner

------------------------------------------------------------------------------
(* The claims                                                               *)

\* C1 (row-width invariant): every row of the output of
\* generate_with_config - top border, content rows, bottom border - has the
\* same character length.  Stated for lines and captions without a newline,
\* the case in which the rows of the output are the rows the claim names.
C1_RowWidthInvariant ==
    (Rendered /\ LinesNoNewline /\ CaptionNoNewline) =>
        \A i, j \in 1..Len(Rows(Text)) :
            Len(Rows(Text)[i]) = Len(Rows(Text)[j])

\* C2 (caption-width law): the interior width used by generate_with_config
\* (bars of the top border minus 2) is max(longest line length, caption
\* length), 0 for no lines and for no caption, lengths in characters.
C2_CaptionWidthLaw ==
    Rendered => InteriorWidth = max(MaxCharLen(Lines), CaptionCharLen)

\* C3 (content-padding law): content row i is vertical_bar, a space, line i
\* unchanged, interior_width - length(line i) spaces, a space, vertical_bar.
C3_ContentPaddingLaw ==
    (Rendered /\ LinesNoNewline /\ CaptionNoNewline) =>
        \A i \in 1..Len(Lines) :
            Rows(Text)[i + 1] =
                Cfg.vertical_bar \o <<SPACE>> \o Lines[i]
                    \o repeat(<<SPACE>>, InteriorWidth - Len(Lines[i]))
                    \o <<SPACE>> \o Cfg.vertical_bar

\* C4 (totality): no call of generate_with_config, generate_box or
\* generate_with_caption panics: neither longest_line - line.len() nor
\* longest_line - caption.len() goes below zero.
C4_Totality ==
    output # None => ~output[1].panicked

\* C4, its case: lines and a caption longer than every line were rendered.
C4_Witness ==
    /\ Rendered
    /\ Len(Lines) = MaxLines
    /\ HasCaption
    /\ \A i \in 1..Len(Lines) : str_len(Lines[i]) < str_len(Caption)
    /\ Text # << >>

\* C5 (widths count characters, not bytes): two lines of one call with the
\* same number of characters get the same number of padding spaces.
C5_WidthInChars ==
    (Rendered /\ LinesNoNewline /\ CaptionNoNewline) =>
        \A i, j \in 1..Len(Lines) :
            Len(Lines[i]) = Len(Lines[j]) =>
                Len(Rows(Text)[i + 1]) - Len(Lines[i])
                    = Len(Rows(Text)[j + 1]) - Len(Lines[j])

\* C6 (bottom border forms): with a caption C the last row is "<" C ">",
\* interior_width - length(C) + 1 horizontal bars and the right bottom
\* corner; with none it is the left bottom corner, interior_width + 2
\* horizontal bars and the right bottom corner.
C6_BottomBorderForms ==
    (Rendered /\ LinesNoNewline /\ CaptionNoNewline) =>
        LET last == Rows(Text)[Len(Rows(Text))]
        IN  IF HasCaption
            THEN last = <<LESS_THAN>> \o Caption \o <<GREATER_THAN>>
                         \o repeat(Cfg.horizontal_bar,
                                   InteriorWidth - Len(Caption) + 1)
                         \o Cfg.right_bottom_corner
            ELSE last = Cfg.left_bottom_corner
                         \o repeat(Cfg.horizontal_bar, InteriorWidth + 2)
                         \o Cfg.right_bottom_corner

\* The shape of the n + 2 rows, in order, whatever the widths.
RowsInOrder ==
    LET rows == Rows(Text)
        n    == Len(Lines)
        bar  == Cfg.horizontal_bar[1]
    IN  /\ Len(rows) = n + 2
        /\ Count(Text, NEWLINE) = n + 1
        /\ Text[Len(Text)] # NEWLINE
        /\ Head(rows)[1] = Cfg.left_top_corner[1]
        /\ Head(rows)[Len(Head(rows))] = Cfg.right_top_corner[1]
        /\ \A k \in 2..(Len(Head(rows)) - 1) : Head(rows)[k] = bar
        /\ \A i \in 1..n :
              LET row == rows[i + 1]
              IN  /\ Len(row) >= Len(Lines[i]) + 4
                  /\ SubSeq(row, 1, Len(Lines[i]) + 2)
                        = Cfg.vertical_bar \o <<SPACE>> \o Lines[i]
                  /\ \A k \in (Len(Lines[i]) + 3)..(Len(row) - 1) :
                        row[k] = SPACE
                  /\ row[Len(row)] = Cfg.vertical_bar[1]
        /\ LET last == rows[Len(rows)]
               head == IF HasCaption
                       THEN <<LESS_THAN>> \o Caption \o <<GREATER_THAN>>
                       ELSE Cfg.left_bottom_corner
           IN  /\ Len(last) >= Len(head) + 1
               /\ SubSeq(last, 1, Len(head)) = head
               /\ \A k \in (Len(head) + 1)..(Len(last) - 1) : last[k] = bar
               /\ last[Len(last)] = Cfg.right_bottom_corner[1]

\* C7 as claimed (output assembly): for n lines none of which contains a
\* newline the output is n + 2 rows - top border, the content rows in the
\* order of the lines, bottom border - with one newline between consecutive
\* rows and none at the end.
C7_OutputAssembly_AsClaimed ==
    (Rendered /\ LinesNoNewline) => RowsInOrder

\* C7 as amended: the same, for lines and a caption none of which contains
\* a newline.
C7_OutputAssembly ==
    (Rendered /\ LinesNoNewline /\ CaptionNoNewline) => RowsInOrder

\* C7, its case: MaxLines lines under a caption were rendered.
C7_Witness ==
    /\ Rendered
    /\ LinesNoNewline
    /\ HasCaption
    /\ CaptionNoNewline
    /\ Len(Lines) = MaxLines
    /\ \E i \in 1..Len(Lines) : Lines[i] # << >>
    /\ Len(Rows(Text)) = MaxLines + 2

\* C8 (empty-input base case): zero lines give two rows, top border and
\* bottom border, of interior width length(caption), or 0 without caption;
\* the default config without caption gives exactly the light 4-wide box;
\* with a caption C the bottom row is "<" C ">", one bar and the corner.
C8_EmptyInput ==
    (Rendered /\ Lines = << >> /\ CaptionNoNewline) =>
        /\ Len(Rows(Text)) = 2
        /\ InteriorWidth = CaptionCharLen
        /\ Cfg = LightPreset =>
              Text = <<9581, 9472, 9472, 9582, NEWLINE, 9584, 9472, 9472, 9583>>
        /\ HasCaption =>
              Rows(Text)[2] = <<LESS_THAN>> \o Caption \o <<GREATER_THAN>>
                                 \o Cfg.horizontal_bar \o Cfg.right_bottom_corner

\* C9 (value semantics of with_caption): with_caption(c) returns a config
\* whose caption is c and whose six glyphs are those of the config it was
\* applied to; the presets stay as they were, so a call of default() or
\* dos() returns the preset's glyphs and no caption.
C9_WithCaptionValueSemantics ==
    /\ call.fn = "with_caption" =>
          /\ config # None
          /\ config[1].last_line_caption = call.caption
          /\ SameGlyphs(config[1], call.config[1])
    /\ call.fn = "default" => config = Some(LightPreset)
    /\ call.fn = "dos" => config = Some(DoublePreset)
    /\ Default = LightPreset
    /\ dos = DoublePreset

\* C9, its case: with_caption replaced the caption of a captioned config
\* that does not carry the light glyphs.
C9_Witness ==
    /\ call.fn = "with_caption"
    /\ call.config[1].last_line_caption # None
    /\ call.config[1].last_line_caption # call.caption
    /\ SameGlyphs(call.config[1], DoublePreset)
    /\ config[1].last_line_caption = call.caption

\* C10 (the convenience entry points only choose the config):
\* generate_box(lines) is generate_with_config(lines, light preset) and
\* generate_with_caption(lines, c) is
\* generate_with_config(lines, light preset .with_caption(c)).
C10_ConvenienceEntryPoints ==
    /\ call.fn = "generate_box" =>
          output = Some(generate_with_config(call.lines, LightPreset))
    /\ call.fn = "generate_with_caption" =>
          output = Some(generate_with_config(
                            call.lines,
                            with_caption(LightPreset, call.caption[1])))

\* C10, its case: generate_with_caption rendered lines under a caption.
C10_Witness ==
    /\ call.fn = "generate_with_caption"
    /\ Len(call.lines) = MaxLines
    /\ call.caption[1] # << >>
    /\ output # None
    /\ output[1].text # << >>

====
